---- MODULE Spec2Model ----
(***************************************************************************)
(* Model of the reconnecting market-channel client of src/src/wss.rs       *)
(* (WssMarketClient) together with the transport it talks to.              *)
(*                                                                         *)
(* The client is driven by one caller.  A call of subscribe() or           *)
(* next_event() runs as a sequence of steps, one per await point of the    *)
(* code; the transport decides the outcome of every connect attempt, send  *)
(* and read.                                                               *)
(***************************************************************************)
EXTENDS Integers, Sequences, FiniteSets, TLC

\* ------------------------------------------------------------------ bounds

\* Each specification gives the caller and the transport a budget of
\* choices: calls of subscribe(), JSON payload frames, and disturbances of
\* four kinds: failed connect attempts, rejected writes, drops (Close frame,
\* read error, end of stream) and other frames (control text, noise, Ping,
\* Pong, Binary).  Each kind is capped, and so is their sum.  SpecConnect and
\* SpecHistory give most of the sum to one kind and cap every other kind by
\* what is left of it.

\* Spec: the client at large
MaxSubscribes == 2
MaxPayloadFrames == 2
MaxDisturbances == 2
MaxChoices == 4

\* SpecConnect: a connect() call that runs out of attempts
RetryConnectFailures == 9
RetryChoices == 10

\* SpecGiveUpTwice: two connect() calls that run out of attempts
TwiceConnectFailures == 16
TwiceChoices == 17

\* SpecHistory: the disconnect history past its capacity
HistoryDrops == 6
HistoryChoices == 7

\* SpecDelay: arguments tried from each starting point of reconnect_delay
MaxProbe == 60

\* SpecClassify: elements classified one after the other
MaxBatch == 2

\* SpecSend: messages transmitted on a socket before send_raw_message runs
MaxSent == 1

\* SpecUrl: length of the base URLs and paths tried beside the literal ones
MaxUrlLen == 3

\* ------------------------------------------------------- program constants

BASE_RECONNECT_DELAY == 250
MAX_RECONNECT_DELAY == 10000
MAX_RECONNECT_ATTEMPTS == 8
\* capacity test of the disconnect history
HISTORY_LIMIT == 5

\* Option<T>: None is the empty sequence, Some(x) the one-element sequence
None == <<>>
Some(x) == <<x>>
IsSome(o) == o # <<>>
Unwrap(o) == o[1]

\* ------------------------------------------------------------------- text
\* A text frame is a sequence of characters.  The text of a JSON object is
\* "{", one token naming its members, "}".

Whitespace == {" ", "\t", "\n"}

\* char::to_ascii_lowercase on the letters that occur
to_ascii_lowercase(c) ==
    CASE c = "P" -> "p"
      [] c = "I" -> "i"
      [] c = "N" -> "n"
      [] c = "G" -> "g"
      [] c = "O" -> "o"
      [] OTHER -> c

\* str::eq_ignore_ascii_case
eq_ignore_ascii_case(a, b) ==
    /\ Len(a) = Len(b)
    /\ \A i \in 1..Len(a) : to_ascii_lowercase(a[i]) = to_ascii_lowercase(b[i])

RECURSIVE trim_start(_)
trim_start(s) ==
    IF s # <<>> /\ Head(s) \in Whitespace THEN trim_start(Tail(s)) ELSE s

RECURSIVE trim_end(_)
trim_end(s) ==
    IF s # <<>> /\ s[Len(s)] \in Whitespace
    THEN trim_end(SubSeq(s, 1, Len(s) - 1))
    ELSE s

\* str::trim
trim(s) == trim_end(trim_start(s))

\* trimmed.chars().next()
first_char(s) == IF s = <<>> THEN None ELSE Some(Head(s))

PING == <<"p", "i", "n", "g">>
PONG == <<"p", "o", "n", "g">>

\* ------------------------------------------------------------- Result, errors

Ok(v) == [ok |-> TRUE, val |-> Some(v), err |-> None]
Err(e) == [ok |-> FALSE, val |-> None, err |-> Some(e)]

\* PolyError::parse(message, source)
ParseError(msg, arg) == [variant |-> "Parse", kind |-> "", msg |-> msg, arg |-> arg]
\* PolyError::stream(message, kind)
StreamError(msg, kind) == [variant |-> "Stream", kind |-> kind, msg |-> msg, arg |-> ""]

\* ------------------------------------------------------------------- JSON
\* serde_json::Value restricted to what the market channel carries: an
\* object (named by its member token), an array, a number.

JObject(m) == [t |-> "obj", members |-> m, elems |-> <<>>]
JArray(es) == [t |-> "arr", members |-> "", elems |-> es]
JNumber == [t |-> "num", members |-> "", elems |-> <<>>]

StrField(s) == Some([is_str |-> TRUE, s |-> s])
NumField == Some([is_str |-> FALSE, s |-> ""])

\* The members of the objects that occur: the two discriminant members and
\* whether the remaining members fit the struct the discriminant selects.
Members ==
    [ book             |-> [event_type |-> StrField("book"), type |-> None, rest_ok |-> TRUE],
      price_change     |-> [event_type |-> StrField("price_change"), type |-> None, rest_ok |-> TRUE],
      tick_size_change |-> [event_type |-> StrField("tick_size_change"), type |-> None, rest_ok |-> TRUE],
      last_trade_price |-> [event_type |-> StrField("last_trade_price"), type |-> None, rest_ok |-> TRUE],
      unknown_kind     |-> [event_type |-> StrField("unknown_kind"), type |-> None, rest_ok |-> TRUE],
      book_and_type    |-> [event_type |-> StrField("book"), type |-> StrField("market"), rest_ok |-> TRUE],
      type_book        |-> [event_type |-> None, type |-> StrField("book"), rest_ok |-> TRUE],
      num_type_trade   |-> [event_type |-> NumField, type |-> StrField("last_trade_price"), rest_ok |-> TRUE],
      type_unknown     |-> [event_type |-> None, type |-> StrField("market"), rest_ok |-> TRUE],
      bad_book         |-> [event_type |-> StrField("book"), type |-> None, rest_ok |-> FALSE],
      no_disc          |-> [event_type |-> None, type |-> None, rest_ok |-> TRUE],
      num_disc         |-> [event_type |-> NumField, type |-> NumField, rest_ok |-> TRUE] ]

MemberTokens == DOMAIN Members

\* Value::get(key): None on anything but an object holding the key
Get(value, key) ==
    IF value.t = "obj" /\ value.members \in MemberTokens
    THEN IF key = "event_type"
         THEN Members[value.members].event_type
         ELSE Members[value.members].type
    ELSE None

\* Option<&Value>::and_then(|v| v.as_str())
as_str(field) ==
    IF IsSome(field) /\ Unwrap(field).is_str THEN Some(Unwrap(field).s) ELSE None

\* serde_json::from_str on the grammar
\*   value  ::= ws ( "{" ws [members] ws "}" | "[" ws [value {"," value}] "]" | "1" ) ws
\* ParseValue yields [ok, val, rest]; from_str fails when input is left over.
Parsed(v, rest) == [ok |-> TRUE, val |-> v, rest |-> rest]
NoParse == [ok |-> FALSE, val |-> JNumber, rest |-> <<>>]

RECURSIVE ParseValue(_)
RECURSIVE ParseElems(_, _)

ParseValue(text) ==
    LET s == trim_start(text) IN
    IF s = <<>> THEN NoParse
    ELSE IF Head(s) = "1" THEN Parsed(JNumber, trim_start(Tail(s)))
    ELSE IF Head(s) = "{" THEN
        LET b == trim_start(Tail(s)) IN
        IF b = <<>> THEN NoParse
        ELSE IF Head(b) = "}" THEN Parsed(JObject(""), trim_start(Tail(b)))
        ELSE IF Head(b) \in MemberTokens THEN
            LET c == trim_start(Tail(b)) IN
            IF c # <<>> /\ Head(c) = "}"
            THEN Parsed(JObject(Head(b)), trim_start(Tail(c)))
            ELSE NoParse
        ELSE NoParse
    ELSE IF Head(s) = "[" THEN
        LET b == trim_start(Tail(s)) IN
        IF b = <<>> THEN NoParse
        ELSE IF Head(b) = "]" THEN Parsed(JArray(<<>>), trim_start(Tail(b)))
        ELSE ParseElems(b, <<>>)
    ELSE NoParse

\* the elements of an array after "[" or ",", up to and including "]"
ParseElems(text, acc) ==
    LET e == ParseValue(text) IN
    IF ~e.ok \/ e.rest = <<>> THEN NoParse
    ELSE IF Head(e.rest) = "," THEN ParseElems(Tail(e.rest), Append(acc, e.val))
    ELSE IF Head(e.rest) = "]"
         THEN Parsed(JArray(Append(acc, e.val)), trim_start(Tail(e.rest)))
    ELSE NoParse

from_str(text) ==
    LET p == ParseValue(text) IN
    IF p.ok /\ p.rest = <<>> THEN Ok(p.val) ELSE Err(ParseError("Invalid JSON", ""))

\* serde_json::from_value into MarketBook, PriceChangeMessage,
\* TickSizeChangeMessage or LastTradeMessage: every one of them requires the
\* member event_type to be a string, beside its other members.
from_value(value) ==
    /\ value.t = "obj"
    /\ value.members \in MemberTokens
    /\ IsSome(as_str(Members[value.members].event_type))
    /\ Members[value.members].rest_ok

\* ------------------------------------------------------------ market events

WssMarketEvent(variant, value) == [variant |-> variant, payload |-> value.members]

Decoded(variant, what, value) ==
    IF from_value(value)
    THEN Ok(WssMarketEvent(variant, value))
    ELSE Err(ParseError("Failed to parse", what))

\* the classification looking at the member type first
parse_market_event_value_type_first(value) ==
    LET t == as_str(Get(value, "type"))
        event_type == IF IsSome(t) THEN t ELSE as_str(Get(value, "event_type"))
    IN  IF ~IsSome(event_type)
        THEN Err(ParseError("Missing event_type/type in market message", ""))
        ELSE LET x == Unwrap(event_type) IN
             CASE x = "book" -> Decoded("Book", x, value)
               [] x = "price_change" -> Decoded("PriceChange", x, value)
               [] x = "tick_size_change" -> Decoded("TickSizeChange", x, value)
               [] x = "last_trade_price" -> Decoded("LastTrade", x, value)
               [] OTHER -> Err(ParseError("Unknown market event_type", x))

\* parse_market_event_value
parse_market_event_value(value) ==
    LET et == as_str(Get(value, "event_type"))
        event_type == IF IsSome(et) THEN et ELSE as_str(Get(value, "type"))
    IN  IF ~IsSome(event_type)
        THEN Err(ParseError("Missing event_type/type in market message", ""))
        ELSE LET x == Unwrap(event_type) IN
             CASE x = "book" -> Decoded("Book", x, value)
               [] x = "price_change" -> Decoded("PriceChange", x, value)
               [] x = "tick_size_change" -> Decoded("TickSizeChange", x, value)
               [] x = "last_trade_price" -> Decoded("LastTrade", x, value)
               [] OTHER -> Err(ParseError("Unknown market event_type", x))

\* the collection dropping the elements that fail and keeping the rest
RECURSIVE CollectEvents_skip_bad(_, _)
CollectEvents_skip_bad(elems, acc) ==
    IF elems = <<>> THEN Ok(acc)
    ELSE LET r == parse_market_event_value(Head(elems)) IN
         IF r.ok THEN CollectEvents_skip_bad(Tail(elems), Append(acc, Unwrap(r.val)))
         ELSE CollectEvents_skip_bad(Tail(elems), acc)

\* array.iter().map(parse_market_event_value).collect::<Result<Vec<_>>>():
\* the events in element order, or the first error
RECURSIVE CollectEvents(_, _)
CollectEvents(elems, acc) ==
    IF elems = <<>> THEN Ok(acc)
    ELSE LET r == parse_market_event_value(Head(elems)) IN
         IF r.ok THEN CollectEvents(Tail(elems), Append(acc, Unwrap(r.val)))
         ELSE r

parse_market_events(text) ==
    LET value == from_str(text) IN
    IF ~value.ok THEN value
    ELSE LET v == Unwrap(value.val) IN
         IF v.t = "arr"
         THEN CollectEvents(v.elems, <<>>)
         ELSE LET r == parse_market_event_value(v) IN
              IF r.ok THEN Ok(<<Unwrap(r.val)>>) ELSE r


\* ------------------------------------------------------- wide arithmetic
\* TLC's integers are 32 bits wide; a u32 or u128 is kept as two limbs,
\* hi * LIMB + lo with lo < LIMB.

LIMB == 65536

Wide(hi, lo) == [hi |-> hi, lo |-> lo]
U32(n) == Wide(n \div LIMB, n % LIMB)
WideLeq(a, b) == a.hi < b.hi \/ (a.hi = b.hi /\ a.lo <= b.lo)
\* u128 product of a small factor and a u32 (no wrap: it stays below 2^128)
WideMul(k, w) == Wide(k * w.hi + (k * w.lo) \div LIMB, (k * w.lo) % LIMB)
\* Ord::min
WideMin(a, b) == IF WideLeq(a, b) THEN a ELSE b
WideSucc(w) == IF w.lo = LIMB - 1 THEN Wide(w.hi + 1, 0) ELSE Wide(w.hi, w.lo + 1)

\* reconnect_delay with the product taken in 32 bits
reconnect_delay_u32(n) ==
    LET full == WideMul(BASE_RECONNECT_DELAY, n)
        millis == Wide(full.hi % LIMB, full.lo)
        desired == WideMin(millis, U32(MAX_RECONNECT_DELAY))
    IN  desired.hi * LIMB + desired.lo

\* reconnect_delay counting the attempts from 0
reconnect_delay_zero_based(n) ==
    LET before == IF n = U32(0) THEN n
                  ELSE IF n.lo = 0 THEN Wide(n.hi - 1, LIMB - 1)
                  ELSE Wide(n.hi, n.lo - 1)
        millis == WideMul(BASE_RECONNECT_DELAY, before)
        desired == WideMin(millis, U32(MAX_RECONNECT_DELAY))
    IN  desired.hi * LIMB + desired.lo

\* WssMarketClient::reconnect_delay, in milliseconds
reconnect_delay(n) ==
    LET millis == WideMul(BASE_RECONNECT_DELAY, n)
        desired == WideMin(millis, U32(MAX_RECONNECT_DELAY))
    IN  desired.hi * LIMB + desired.lo

\* -------------------------------------------------------------- transport

\* tungstenite Message
Text(t) == [frame |-> "Text", body |-> t]
Ping(payload) == [frame |-> "Ping", body |-> payload]
Pong(payload) == [frame |-> "Pong", body |-> payload]
Close == [frame |-> "Close", body |-> <<>>]
Binary == [frame |-> "Binary", body |-> <<>>]

\* what connection.next().await yields beside a message
ReadErr == [frame |-> "Err", body |-> <<>>]
EndOfStream == [frame |-> "End", body |-> <<>>]

Obj(m) == <<"{", m, "}">>

\* text frames that reach parse_market_events
PayloadTexts ==
    { Obj("book"),
      <<" ">> \o Obj("price_change") \o <<"\n">>,
      <<"[">> \o Obj("book") \o <<",", " ">> \o Obj("last_trade_price") \o <<"]">>,
      <<"[", "]">>,
      Obj("unknown_kind"),
      <<"[">> \o Obj("book") \o <<",">> \o Obj("no_disc") \o <<"]">>,
      <<"{", "book">> }

\* text frames that do not
QuietTexts ==
    { PING,
      <<" ", "P", "o", "N", "g", "\n">>,
      <<"\t">>,
      <<"1">> }

\* a socket: its number, what was transmitted on it, how many frames were
\* read from it, and the subscription set held when it was opened
Socket(id, held) == [id |-> id, sent |-> <<>>, reads |-> 0, opened_with |-> held]

\* ------------------------------------------------------------------ state

VARIABLES
    connection,             \* Option<WebSocketStream>
    subscribed_asset_ids,   \* Vec<String>
    stats,                  \* WssStats
    disconnect_history,     \* VecDeque<DateTime<Utc>>
    pending_events,         \* VecDeque<WssMarketEvent>
    pc,                     \* where the running call stands
    call,                   \* the public operation running, "none" between calls
    attempts,               \* connect()'s local counter
    ret,                    \* what the last finished call returned
    now,                    \* the clock read by Utc::now()
    sockets,                \* sockets opened so far
    waits,                  \* delays slept in the current connect() call
    last_frame,             \* what the last read yielded
    last_step,              \* the step taken last
    frames_parsed,          \* texts handed to parse_market_events, in order
    delivered,              \* events returned by next_event(), in order
    disconnects,            \* every timestamp pushed to the history, in order
    left,                   \* what is left of the behaviour's budget
    probe,                  \* pure functions applied alone: arguments and results
    arg,                    \* the argument of the last subscribe() call
    snapshot,               \* what the last stats() call returned
    entry,                  \* the connection when subscribe() was last called
    begun                   \* the client when the running connect() was called

vars ==
    << connection, subscribed_asset_ids, stats, disconnect_history,
       pending_events, pc, call, attempts, ret, now, sockets, waits,
       last_frame, last_step, frames_parsed, delivered, disconnects, left,
       probe, arg, snapshot, entry, begun >>

AssetIdLists == { <<>>, <<"123">>, <<"456", "123">> }

\* WssStats::default
WssStatsDefault ==
    [ messages_received |-> 0, errors |-> 0, reconnect_count |-> 0,
      last_message_time |-> None ]

NoFrame == [frame |-> "none", body |-> <<>>]
NoRet == [op |-> "none", ok |-> TRUE, val |-> None, err |-> None]
Return(op, r) == [op |-> op, ok |-> r.ok, val |-> r.val, err |-> r.err]

Budget(subscribes, payloads, connect_failures, send_failures, drops, others, all) ==
    [ subscribes |-> subscribes, payloads |-> payloads,
      connect_failures |-> connect_failures, send_failures |-> send_failures,
      drops |-> drops, others |-> others, choices |-> all ]

NoProbe == [n |-> U32(0), delay |-> 0, prev |-> 0, steps |-> 0]

\* WssMarketClient::with_url
Start(budget, p) ==
    /\ connection = None
    /\ subscribed_asset_ids = <<>>
    /\ stats = WssStatsDefault
    /\ disconnect_history = <<>>
    /\ pending_events = <<>>
    /\ pc = "idle"
    /\ call = "none"
    /\ attempts = 0
    /\ ret = NoRet
    /\ now = 1
    /\ sockets = 0
    /\ waits = <<>>
    /\ last_frame = NoFrame
    /\ last_step = "new"
    /\ frames_parsed = <<>>
    /\ delivered = <<>>
    /\ disconnects = <<>>
    /\ left = budget
    /\ probe = p
    /\ arg = <<>>
    /\ snapshot = None
    /\ entry = None
    /\ begun = None

Init ==
    Start(Budget(MaxSubscribes, MaxPayloadFrames, MaxDisturbances,
                 MaxDisturbances, MaxDisturbances, MaxDisturbances,
                 MaxChoices), NoProbe)


\* ---------------------------------------------------------------- helpers

\* format_subscription with the identifiers in reverse order
format_subscription_reversed(ids) ==
    [type |-> "market", assets_ids |-> [i \in 1..Len(ids) |-> ids[Len(ids) + 1 - i]]]

\* WssMarketClient::format_subscription; the text serde_json::to_string
\* makes of it is identified with the JSON object it encodes
format_subscription(ids) == [type |-> "market", assets_ids |-> ids]

\* the write half of the transport: the message is on the wire
Transmit(sock, msg) == [sock EXCEPT !.sent = Append(@, msg)]

\* send_raw_message reporting MessageCorrupted for every failure
send_raw_message_corrupted(conn, message, accepted) ==
    IF IsSome(conn) /\ accepted
    THEN [conn |-> Some(Transmit(Unwrap(conn), Text(message))), res |-> Ok(<<>>)]
    ELSE [conn |-> conn,
          res |-> Err(StreamError("Failed to send message", "MessageCorrupted"))]

\* WssMarketClient::send_raw_message: the connection afterwards and the result
send_raw_message(conn, message, accepted) ==
    IF IsSome(conn)
    THEN IF accepted
         THEN [conn |-> Some(Transmit(Unwrap(conn), Text(message))), res |-> Ok(<<>>)]
         ELSE [conn |-> conn,
               res |-> Err(StreamError("Failed to send message", "MessageCorrupted"))]
    ELSE [conn |-> conn,
          res |-> Err(StreamError("WebSocket connection not established",
                                  "ConnectionFailed"))]

\* send_subscription leaving out a message equal to the last one transmitted
send_subscription_once(conn, ids, accepted) ==
    IF ids = <<>>
    THEN [conn |-> conn, res |-> Ok(<<>>)]
    ELSE IF /\ IsSome(conn) /\ Unwrap(conn).sent # <<>>
            /\ Unwrap(conn).sent[Len(Unwrap(conn).sent)] = Text(format_subscription(ids))
    THEN [conn |-> conn, res |-> Ok(<<>>)]
    ELSE send_raw_message(conn, format_subscription(ids), accepted)

\* WssMarketClient::send_subscription
send_subscription(conn, ids, accepted) ==
    IF ids = <<>>
    THEN [conn |-> conn, res |-> Ok(<<>>)]
    ELSE send_raw_message(conn, format_subscription(ids), accepted)

\* ensure_connection connecting whatever the state
NeedsConnect_always(conn) == TRUE

\* ensure_connection connecting again while nothing was read from the socket
NeedsConnect_unread(conn) == conn = None \/ Unwrap(conn).reads = 0

\* the test of ensure_connection
NeedsConnect(conn) == conn = None

\* connect() giving up one attempt late
GivesUp_late(n) == n > MAX_RECONNECT_ATTEMPTS

\* connect() giving up one attempt early
GivesUp_early(n) == n >= MAX_RECONNECT_ATTEMPTS - 1

\* connect()'s test after a failed attempt
GivesUp(n) == n >= MAX_RECONNECT_ATTEMPTS

\* the bookkeeping with pop_back in place of pop_front
PushDisconnect_pop_back(history, t) ==
    LET pushed == Append(history, t) IN
    IF Len(pushed) > HISTORY_LIMIT THEN SubSeq(pushed, 1, Len(pushed) - 1) ELSE pushed

\* the disconnect bookkeeping of the Close arm
PushDisconnect(history, t) ==
    LET pushed == Append(history, t) IN
    IF Len(pushed) > HISTORY_LIMIT THEN Tail(pushed) ELSE pushed

\* the control-text test of the Text arm
IsControlText(trimmed) ==
    eq_ignore_ascii_case(trimmed, PING) \/ eq_ignore_ascii_case(trimmed, PONG)

\* the shape test letting an empty frame through
IsNoise_nonempty(trimmed) ==
    /\ trimmed # <<>>
    /\ first_char(trimmed) # Some("{") /\ first_char(trimmed) # Some("[")

\* the shape test of the Text arm
IsNoise(trimmed) ==
    first_char(trimmed) # Some("{") /\ first_char(trimmed) # Some("[")

\* the loop with push_front in place of push_back
PushAll_push_front(queue, events) ==
    [i \in 1..Len(events) |-> events[Len(events) + 1 - i]] \o queue

\* pending_events after the loop `for evt in events { push_back(evt) }`
PushAll(queue, events) == queue \o events

\* where a call goes on after ensure_connection returned Ok
AfterEnsure(c) == IF c = "subscribe" THEN "send" ELSE "read"

\* the fields of the client beside its connection
Fields ==
    [ stats |-> stats, pending_events |-> pending_events,
      subscribed_asset_ids |-> subscribed_asset_ids,
      disconnect_history |-> disconnect_history ]

\* the budget allows one more choice of a kind; the budget after it
May(what) == left[what] > 0 /\ left.choices > 0
Spend(what) == [left EXCEPT ![what] = @ - 1, !.choices = @ - 1]

\* ------------------------------------------------------------------ calls

\* subscribe adding the identifiers to the held ones
Subscribe_merge(asset_ids) ==
    /\ pc = "idle"
    /\ May("subscribes")
    /\ arg' = asset_ids
    /\ entry' = connection
    /\ subscribed_asset_ids' = subscribed_asset_ids \o asset_ids
    /\ call' = "subscribe"
    /\ pc' = "ensure"
    /\ left' = Spend("subscribes")
    /\ last_step' = "subscribe"
    /\ UNCHANGED << connection, stats, disconnect_history, pending_events,
                    attempts, ret, now, sockets, waits, last_frame,
                    frames_parsed, delivered, disconnects, probe, snapshot,
                    begun >>

\* subscribe(asset_ids), up to its first await
Subscribe(asset_ids) ==
    /\ pc = "idle"
    /\ May("subscribes")
    /\ arg' = asset_ids
    /\ entry' = connection
    /\ subscribed_asset_ids' = asset_ids
    /\ call' = "subscribe"
    /\ pc' = "ensure"
    /\ left' = Spend("subscribes")
    /\ last_step' = "subscribe"
    /\ UNCHANGED << connection, stats, disconnect_history, pending_events,
                    attempts, ret, now, sockets, waits, last_frame,
                    frames_parsed, delivered, disconnects, probe, snapshot,
                    begun >>

\* next_event() is called
NextEvent ==
    /\ pc = "idle"
    /\ call' = "next_event"
    /\ pc' = "loop"
    /\ last_step' = "next_event"
    /\ UNCHANGED << connection, subscribed_asset_ids, stats, disconnect_history,
                    pending_events, attempts, ret, now, sockets, waits,
                    last_frame, frames_parsed, delivered, disconnects, left,
                    probe, arg, snapshot, entry, begun >>

\* the loop going on to read while Connected, whatever is queued
LoopTop_reads_first ==
    /\ pc = "loop"
    /\ IF pending_events # <<>> /\ connection = None
       THEN /\ pending_events' = Tail(pending_events)
            /\ ret' = Return("next_event", Ok(Head(pending_events)))
            /\ delivered' = Append(delivered, Head(pending_events))
            /\ pc' = "idle"
            /\ call' = "none"
            /\ last_step' = "pop"
       ELSE /\ pc' = "ensure"
            /\ last_step' = "loop"
            /\ UNCHANGED << pending_events, ret, delivered, call >>
    /\ UNCHANGED << connection, subscribed_asset_ids, stats, disconnect_history,
                    attempts, now, sockets, waits, last_frame, frames_parsed,
                    disconnects, left, probe, arg, snapshot, entry, begun >>

\* top of next_event's loop: return the queue head, or go on to
\* ensure_connection
LoopTop ==
    /\ pc = "loop"
    /\ IF pending_events # <<>>
       THEN /\ pending_events' = Tail(pending_events)
            /\ ret' = Return("next_event", Ok(Head(pending_events)))
            /\ delivered' = Append(delivered, Head(pending_events))
            /\ pc' = "idle"
            /\ call' = "none"
            /\ last_step' = "pop"
       ELSE /\ pc' = "ensure"
            /\ last_step' = "loop"
            /\ UNCHANGED << pending_events, ret, delivered, call >>
    /\ UNCHANGED << connection, subscribed_asset_ids, stats, disconnect_history,
                    attempts, now, sockets, waits, last_frame, frames_parsed,
                    disconnects, left, probe, arg, snapshot, entry, begun >>

\* ensure_connection with connect() counting on from the attempts before
EnsureConnection_keeps_attempts ==
    /\ pc = "ensure"
    /\ IF NeedsConnect(connection)
       THEN /\ pc' = "connect"
            /\ waits' = <<>>
            /\ begun' = Some(Fields)
            /\ last_step' = "ensure_connect"
            /\ UNCHANGED attempts
       ELSE /\ pc' = AfterEnsure(call)
            /\ last_step' = "ensure_connected"
            /\ UNCHANGED << attempts, waits, begun >>
    /\ UNCHANGED << connection, subscribed_asset_ids, stats, disconnect_history,
                    pending_events, call, ret, now, sockets, last_frame,
                    frames_parsed, delivered, disconnects, left, probe, arg,
                    snapshot, entry >>

\* ensure_connection, up to connect()'s first attempt
EnsureConnection ==
    /\ pc = "ensure"
    /\ IF NeedsConnect(connection)
       THEN /\ pc' = "connect"
            /\ attempts' = 0
            /\ waits' = <<>>
            /\ begun' = Some(Fields)
            /\ last_step' = "ensure_connect"
       ELSE /\ pc' = AfterEnsure(call)
            /\ last_step' = "ensure_connected"
            /\ UNCHANGED << attempts, waits, begun >>
    /\ UNCHANGED << connection, subscribed_asset_ids, stats, disconnect_history,
                    pending_events, call, ret, now, sockets, last_frame,
                    frames_parsed, delivered, disconnects, left, probe, arg,
                    snapshot, entry >>

\* a successful connect() starting the stats afresh
ConnectOk_fresh_stats ==
    /\ pc = "connect"
    /\ connection' = Some(Socket(sockets + 1, subscribed_asset_ids))
    /\ sockets' = sockets + 1
    /\ stats' = IF attempts > 0
                THEN [WssStatsDefault EXCEPT !.reconnect_count = 1]
                ELSE WssStatsDefault
    /\ pc' = "replay"
    /\ begun' = None
    /\ last_step' = "connected"
    /\ UNCHANGED << subscribed_asset_ids, disconnect_history, pending_events,
                    call, attempts, ret, now, waits, last_frame, frames_parsed,
                    delivered, disconnects, left, probe, arg, snapshot, entry >>

\* a successful connect() counted as a reconnect whatever came before
ConnectOk_counts_always ==
    /\ pc = "connect"
    /\ connection' = Some(Socket(sockets + 1, subscribed_asset_ids))
    /\ sockets' = sockets + 1
    /\ stats' = [stats EXCEPT !.reconnect_count = @ + 1]
    /\ pc' = "replay"
    /\ begun' = None
    /\ last_step' = "connected"
    /\ UNCHANGED << subscribed_asset_ids, disconnect_history, pending_events,
                    call, attempts, ret, now, waits, last_frame, frames_parsed,
                    delivered, disconnects, left, probe, arg, snapshot, entry >>

\* connect(): connect_async succeeds
ConnectOk ==
    /\ pc = "connect"
    /\ connection' = Some(Socket(sockets + 1, subscribed_asset_ids))
    /\ sockets' = sockets + 1
    /\ stats' = IF attempts > 0
                THEN [stats EXCEPT !.reconnect_count = @ + 1]
                ELSE stats
    /\ pc' = "replay"
    /\ begun' = None
    /\ last_step' = "connected"
    /\ UNCHANGED << subscribed_asset_ids, disconnect_history, pending_events,
                    call, attempts, ret, now, waits, last_frame, frames_parsed,
                    delivered, disconnects, left, probe, arg, snapshot, entry >>

\* connect(): connect_async fails
ConnectFail ==
    /\ pc = "connect"
    /\ May("connect_failures")
    /\ left' = Spend("connect_failures")
    /\ attempts' = attempts + 1
    /\ stats' = [stats EXCEPT !.errors = @ + 1]
    /\ LET delay == reconnect_delay(U32(attempts')) IN
       IF GivesUp(attempts')
       THEN /\ ret' = Return(call, Err(StreamError("Failed to connect", "ConnectionFailed")))
            /\ pc' = "idle"
            /\ call' = "none"
            /\ last_step' = "connect_gave_up"
            /\ begun' = None
            /\ UNCHANGED waits
       ELSE /\ waits' = Append(waits, delay)
            /\ last_step' = "connect_retry"
            /\ UNCHANGED << ret, pc, call, begun >>
    /\ UNCHANGED << connection, subscribed_asset_ids, disconnect_history,
                    pending_events, now, sockets, last_frame, frames_parsed,
                    delivered, disconnects, probe, arg, snapshot, entry >>

\* send_subscription, called by ensure_connection after connect() (pc
\* "replay") and by subscribe itself (pc "send")
SendSubscription(accepted) ==
    /\ pc \in {"replay", "send"}
    /\ accepted \/ (subscribed_asset_ids # <<>> /\ May("send_failures"))
    /\ LET r == send_subscription(connection, subscribed_asset_ids, accepted) IN
       /\ connection' = r.conn
       /\ left' = IF r.res.ok THEN left ELSE Spend("send_failures")
       /\ IF ~r.res.ok
          THEN /\ ret' = Return(call, r.res)
               /\ pc' = "idle"
               /\ call' = "none"
               /\ last_step' = "send_failed"
          ELSE IF pc = "replay"
          THEN /\ pc' = AfterEnsure(call)
               /\ last_step' = "replayed"
               /\ UNCHANGED << ret, call >>
          ELSE /\ ret' = Return(call, r.res)
               /\ pc' = "idle"
               /\ call' = "none"
               /\ last_step' = "subscribed"
    /\ UNCHANGED << subscribed_asset_ids, stats, disconnect_history,
                    pending_events, attempts, now, sockets, waits, last_frame,
                    frames_parsed, delivered, disconnects, probe, arg,
                    snapshot, entry, begun >>


\* ------------------------------------------------------------------ reads
\* next_event's `match self.connection.as_mut().unwrap().next().await`,
\* one action per arm.  Every arm but a returning Text arm goes back to the
\* top of the loop.

\* the socket after one more frame was read from it
Received(conn) == Some([Unwrap(conn) EXCEPT !.reads = @ + 1])

PingPayloads == { <<"a">> }

\* the Text arm counting one message for every frame
ReadText_counts_frames(text) ==
    /\ pc = "read"
    /\ \/ text \in PayloadTexts /\ May("payloads")
       \/ text \in QuietTexts /\ May("others")
    /\ left' = IF text \in PayloadTexts THEN Spend("payloads") ELSE Spend("others")
    /\ connection' = Received(connection)
    /\ last_frame' = Text(text)
    /\ LET trimmed == trim(text) IN
       IF IsControlText(trimmed) \/ IsNoise(trimmed)
       THEN /\ pc' = "loop"
            /\ last_step' = "discard"
            /\ UNCHANGED << stats, pending_events, ret, call, now,
                            frames_parsed, delivered >>
       ELSE LET events == parse_market_events(text) IN
            /\ frames_parsed' = Append(frames_parsed, text)
            /\ IF ~events.ok
               THEN /\ ret' = Return("next_event", events)
                    /\ pc' = "idle"
                    /\ call' = "none"
                    /\ last_step' = "parse_failed"
                    /\ UNCHANGED << stats, pending_events, now, delivered >>
               ELSE LET evs == Unwrap(events.val)
                        queue == PushAll(pending_events, evs)
                    IN  /\ stats' = [stats EXCEPT
                                       !.messages_received = @ + 1,
                                       !.last_message_time = Some(now)]
                        /\ now' = now + 1
                        /\ IF queue # <<>>
                           THEN /\ pending_events' = Tail(queue)
                                /\ ret' = Return("next_event", Ok(Head(queue)))
                                /\ delivered' = Append(delivered, Head(queue))
                                /\ pc' = "idle"
                                /\ call' = "none"
                                /\ last_step' = "event"
                           ELSE /\ pending_events' = queue
                                /\ pc' = "loop"
                                /\ last_step' = "no_events"
                                /\ UNCHANGED << ret, call, delivered >>
    /\ UNCHANGED << subscribed_asset_ids, disconnect_history, attempts, sockets,
                    waits, disconnects, probe, arg, snapshot, entry, begun >>

\* Some(Ok(Message::Text(text)))
ReadText(text) ==
    /\ pc = "read"
    /\ \/ text \in PayloadTexts /\ May("payloads")
       \/ text \in QuietTexts /\ May("others")
    /\ left' = IF text \in PayloadTexts THEN Spend("payloads") ELSE Spend("others")
    /\ connection' = Received(connection)
    /\ last_frame' = Text(text)
    /\ LET trimmed == trim(text) IN
       IF IsControlText(trimmed) \/ IsNoise(trimmed)
       THEN /\ pc' = "loop"
            /\ last_step' = "discard"
            /\ UNCHANGED << stats, pending_events, ret, call, now,
                            frames_parsed, delivered >>
       ELSE LET events == parse_market_events(text) IN
            /\ frames_parsed' = Append(frames_parsed, text)
            /\ IF ~events.ok
               THEN /\ ret' = Return("next_event", events)
                    /\ pc' = "idle"
                    /\ call' = "none"
                    /\ last_step' = "parse_failed"
                    /\ UNCHANGED << stats, pending_events, now, delivered >>
               ELSE LET evs == Unwrap(events.val)
                        queue == PushAll(pending_events, evs)
                    IN  /\ stats' = [stats EXCEPT
                                       !.messages_received = @ + Len(evs),
                                       !.last_message_time = Some(now)]
                        /\ now' = now + 1
                        /\ IF queue # <<>>
                           THEN /\ pending_events' = Tail(queue)
                                /\ ret' = Return("next_event", Ok(Head(queue)))
                                /\ delivered' = Append(delivered, Head(queue))
                                /\ pc' = "idle"
                                /\ call' = "none"
                                /\ last_step' = "event"
                           ELSE /\ pending_events' = queue
                                /\ pc' = "loop"
                                /\ last_step' = "no_events"
                                /\ UNCHANGED << ret, call, delivered >>
    /\ UNCHANGED << subscribed_asset_ids, disconnect_history, attempts, sockets,
                    waits, disconnects, probe, arg, snapshot, entry, begun >>

\* the Ping arm answering with a Pong that carries no payload
ReadPing_empty_pong(payload, accepted) ==
    /\ pc = "read"
    /\ May("others")
    /\ accepted \/ (left.send_failures > 0 /\ left.choices > 1)
    /\ left' = IF accepted
               THEN Spend("others")
               ELSE [left EXCEPT !.others = @ - 1, !.send_failures = @ - 1,
                                 !.choices = @ - 2]
    /\ connection' = IF accepted
                     THEN Some(Transmit(Unwrap(Received(connection)), Pong(<<>>)))
                     ELSE Received(connection)
    /\ last_frame' = Ping(payload)
    /\ pc' = "loop"
    /\ last_step' = "ping"
    /\ UNCHANGED << subscribed_asset_ids, stats, disconnect_history,
                    pending_events, call, attempts, ret, now, sockets, waits,
                    frames_parsed, delivered, disconnects, probe, arg,
                    snapshot, entry, begun >>

\* Some(Ok(Message::Ping(payload))): a Pong is sent, its outcome dropped
ReadPing(payload, accepted) ==
    /\ pc = "read"
    /\ May("others")
    /\ accepted \/ (left.send_failures > 0 /\ left.choices > 1)
    /\ left' = IF accepted
               THEN Spend("others")
               ELSE [left EXCEPT !.others = @ - 1, !.send_failures = @ - 1,
                                 !.choices = @ - 2]
    /\ connection' = IF accepted
                     THEN Some(Transmit(Unwrap(Received(connection)), Pong(payload)))
                     ELSE Received(connection)
    /\ last_frame' = Ping(payload)
    /\ pc' = "loop"
    /\ last_step' = "ping"
    /\ UNCHANGED << subscribed_asset_ids, stats, disconnect_history,
                    pending_events, call, attempts, ret, now, sockets, waits,
                    frames_parsed, delivered, disconnects, probe, arg,
                    snapshot, entry, begun >>

\* Some(Ok(Message::Pong(_))) and Some(Ok(_))
ReadIgnored(frame) ==
    /\ pc = "read"
    /\ May("others")
    /\ left' = Spend("others")
    /\ connection' = Received(connection)
    /\ last_frame' = frame
    /\ pc' = "loop"
    /\ last_step' = "ignored"
    /\ UNCHANGED << subscribed_asset_ids, stats, disconnect_history,
                    pending_events, call, attempts, ret, now, sockets, waits,
                    frames_parsed, delivered, disconnects, probe, arg,
                    snapshot, entry, begun >>

\* Some(Ok(Message::Close(_)))
ReadClose ==
    /\ pc = "read"
    /\ May("drops")
    /\ left' = Spend("drops")
    /\ disconnect_history' = PushDisconnect(disconnect_history, now)
    /\ disconnects' = Append(disconnects, now)
    /\ now' = now + 1
    /\ connection' = None
    /\ last_frame' = Close
    /\ pc' = "loop"
    /\ last_step' = "closed"
    /\ UNCHANGED << subscribed_asset_ids, stats, pending_events, call, attempts,
                    ret, sockets, waits, frames_parsed, delivered, probe,
                    arg, snapshot, entry, begun >>

\* the Err arm handing the error to the caller
ReadError_surfaced ==
    /\ pc = "read"
    /\ May("drops")
    /\ left' = Spend("drops")
    /\ connection' = None
    /\ stats' = [stats EXCEPT !.errors = @ + 1]
    /\ last_frame' = ReadErr
    /\ ret' = Return("next_event", Err(StreamError("WebSocket error", "ConnectionLost")))
    /\ pc' = "idle"
    /\ call' = "none"
    /\ last_step' = "read_error"
    /\ UNCHANGED << subscribed_asset_ids, disconnect_history, pending_events,
                    attempts, now, sockets, waits, frames_parsed, delivered,
                    disconnects, probe, arg, snapshot, entry, begun >>

\* Some(Err(err))
ReadError ==
    /\ pc = "read"
    /\ May("drops")
    /\ left' = Spend("drops")
    /\ connection' = None
    /\ stats' = [stats EXCEPT !.errors = @ + 1]
    /\ last_frame' = ReadErr
    /\ pc' = "loop"
    /\ last_step' = "read_error"
    /\ UNCHANGED << subscribed_asset_ids, disconnect_history, pending_events,
                    call, attempts, ret, now, sockets, waits, frames_parsed,
                    delivered, disconnects, probe, arg, snapshot, entry,
                    begun >>

\* None: the stream ended
ReadEnd ==
    /\ pc = "read"
    /\ May("drops")
    /\ left' = Spend("drops")
    /\ connection' = None
    /\ last_frame' = EndOfStream
    /\ pc' = "loop"
    /\ last_step' = "stream_ended"
    /\ UNCHANGED << subscribed_asset_ids, stats, disconnect_history,
                    pending_events, call, attempts, ret, now, sockets, waits,
                    frames_parsed, delivered, disconnects, probe, arg,
                    snapshot, entry, begun >>

\* ------------------------------------------------------------ specification

Next ==
    \/ \E ids \in AssetIdLists : Subscribe(ids)
    \/ NextEvent
    \/ LoopTop
    \/ EnsureConnection
    \/ ConnectOk
    \/ ConnectFail
    \/ \E accepted \in BOOLEAN : SendSubscription(accepted)
    \/ \E text \in PayloadTexts \cup QuietTexts : ReadText(text)
    \/ \E payload \in PingPayloads, accepted \in BOOLEAN : ReadPing(payload, accepted)
    \/ \E frame \in {Pong(<<>>), Binary} : ReadIgnored(frame)
    \/ ReadClose
    \/ ReadError
    \/ ReadEnd

Spec == Init /\ [][Next]_vars

\* stats(), called between two calls of the other operations; WssStats is
\* cloned field by field
Stats ==
    /\ pc = "idle"
    /\ left.choices > 0
    /\ left' = [left EXCEPT !.choices = @ - 1]
    /\ snapshot' = Some([ messages_received |-> stats.messages_received,
                          errors |-> stats.errors,
                          reconnect_count |-> stats.reconnect_count,
                          last_message_time |-> stats.last_message_time ])
    /\ last_step' = "stats"
    /\ UNCHANGED << connection, subscribed_asset_ids, stats, disconnect_history,
                    pending_events, pc, call, attempts, ret, now, sockets,
                    waits, last_frame, frames_parsed, delivered, disconnects,
                    probe, arg, entry, begun >>

\* the client with a caller that also polls stats()
NextStats == Next \/ Stats

SpecStats == Init /\ [][NextStats]_vars

InitConnect ==
    LET rest == RetryChoices - RetryConnectFailures IN
    Start(Budget(rest, rest, RetryConnectFailures, rest, rest, rest,
                 RetryChoices), NoProbe)

SpecConnect == InitConnect /\ [][Next]_vars

InitGiveUpTwice ==
    LET rest == TwiceChoices - TwiceConnectFailures IN
    Start(Budget(rest, rest, TwiceConnectFailures, rest, rest, rest,
                 TwiceChoices), NoProbe)

SpecGiveUpTwice == InitGiveUpTwice /\ [][Next]_vars

InitHistory ==
    LET rest == HistoryChoices - HistoryDrops IN
    Start(Budget(rest, rest, rest, rest, HistoryDrops, rest, HistoryChoices),
          NoProbe)

SpecHistory == InitHistory /\ [][Next]_vars

\* ------------------------------------------------- reconnect_delay alone
\* reconnect_delay applied to runs of consecutive u32 arguments: from 0, over
\* the first limb boundary, around 2^32 / 250 and up to the largest u32.

U32Top == Wide(LIMB - 1, LIMB - 1)

ProbeStarts ==
    { U32(0),
      Wide(0, LIMB - 30),
      Wide(262, 9400),
      Wide(LIMB - 1, LIMB - 1 - MaxProbe) }

InitDelay ==
    \E n \in ProbeStarts :
        Start(Budget(0, 0, 0, 0, 0, 0, 0),
              [n |-> n, delay |-> reconnect_delay(n), prev |-> 0, steps |-> 0])

\* reconnect_delay of the next argument
ProbeDelay ==
    /\ probe.steps < MaxProbe
    /\ probe.n # U32Top
    /\ probe' = [ n |-> WideSucc(probe.n),
                  delay |-> reconnect_delay(WideSucc(probe.n)),
                  prev |-> probe.delay,
                  steps |-> probe.steps + 1 ]
    /\ UNCHANGED << connection, subscribed_asset_ids, stats, disconnect_history,
                    pending_events, pc, call, attempts, ret, now, sockets,
                    waits, last_frame, last_step, frames_parsed, delivered,
                    disconnects, left, arg, snapshot, entry, begun >>

NextDelay == ProbeDelay

SpecDelay == InitDelay /\ [][NextDelay]_vars

\* ------------------------------------------- parse_market_event_value alone
\* parse_market_event_value applied to the elements of a batch, one after the
\* other; the probe holds the elements and the results so far.

ClassifyValues ==
    { JObject(m) : m \in MemberTokens } \cup { JObject(""), JNumber, JArray(<<>>) }

InitClassify ==
    \E elems \in [1..MaxBatch -> ClassifyValues] :
        Start(Budget(0, 0, 0, 0, 0, 0, 0), [elems |-> elems, results |-> <<>>])

\* parse_market_event_value of the next element
Classify ==
    /\ Len(probe.results) < Len(probe.elems)
    /\ probe' = [probe EXCEPT !.results =
                    Append(@, parse_market_event_value(probe.elems[Len(@) + 1]))]
    /\ UNCHANGED << connection, subscribed_asset_ids, stats, disconnect_history,
                    pending_events, pc, call, attempts, ret, now, sockets,
                    waits, last_frame, last_step, frames_parsed, delivered,
                    disconnects, left, arg, snapshot, entry, begun >>

NextClassify == Classify

SpecClassify == InitClassify /\ [][NextClassify]_vars

\* ------------------------------------------------- send_raw_message alone
\* send_raw_message applied to a connection or none, a message and the
\* transport's answer to the write.

SendMessages == { format_subscription(ids) : ids \in AssetIdLists }

SentBefore ==
    UNION { [1..n -> { Text(m) : m \in SendMessages }] : n \in 0..MaxSent }

SendConnections ==
    { None } \cup
    { Some([Socket(1, held) EXCEPT !.sent = sent]) :
        held \in AssetIdLists, sent \in SentBefore }

InitSend ==
    \E conn \in SendConnections, message \in SendMessages, accepted \in BOOLEAN :
        Start(Budget(0, 0, 0, 0, 0, 0, 0),
              [conn |-> conn, message |-> message, accepted |-> accepted,
               out |-> None])

SendRaw ==
    /\ probe.out = None
    /\ probe' = [probe EXCEPT !.out =
                    Some(send_raw_message(probe.conn, probe.message, probe.accepted))]
    /\ UNCHANGED << connection, subscribed_asset_ids, stats, disconnect_history,
                    pending_events, pc, call, attempts, ret, now, sockets,
                    waits, last_frame, last_step, frames_parsed, delivered,
                    disconnects, left, arg, snapshot, entry, begun >>

NextSend == SendRaw

SpecSend == InitSend /\ [][NextSend]_vars

\* ------------------------------------------------------------ GammaClient
\* src/src/api/gamma.rs: the base URL of the client and the URLs built from
\* it.  A string is the sequence of its characters.

DEFAULT_GAMMA_BASE ==
    << "h", "t", "t", "p", "s", ":", "/", "/", "g", "a", "m", "m", "a",
       "-", "a", "p", "i", ".", "p", "o", "l", "y", "m", "a", "r", "k",
       "e", "t", ".", "c", "o", "m" >>

\* str::trim_end_matches('/') and str::trim_start_matches('/')
RECURSIVE trim_end_matches(_, _)
trim_end_matches(str, ch) ==
    IF str # <<>> /\ str[Len(str)] = ch
    THEN trim_end_matches(SubSeq(str, 1, Len(str) - 1), ch)
    ELSE str

RECURSIVE trim_start_matches(_, _)
trim_start_matches(str, ch) ==
    IF str # <<>> /\ Head(str) = ch THEN trim_start_matches(Tail(str), ch) ELSE str

\* GammaClient, without its http_client
GammaClient(base_url) == [base_url |-> base_url]

\* GammaClient::new
GammaClient_new == GammaClient(DEFAULT_GAMMA_BASE)

\* GammaClient::with_base_url
with_base_url(self, url) == [self EXCEPT !.base_url = url]

\* #[derive(Clone)]
clone(self) == GammaClient(self.base_url)

\* build_url trimming the path at both ends
build_url_trim_both(self, path) ==
    LET base == trim_end_matches(self.base_url, "/")
        p == trim_end_matches(trim_start_matches(path, "/"), "/")
    IN  IF p = <<>> THEN base ELSE base \o <<"/">> \o p

\* GammaClient::build_url
build_url(self, path) ==
    LET base == trim_end_matches(self.base_url, "/")
        p == trim_start_matches(path, "/")
    IN  IF p = <<>> THEN base ELSE base \o <<"/">> \o p

\* GammaClient::gamma_url
gamma_url(self, path) == build_url(self, path)

\* the strings of at most n characters over an alphabet
StringsOver(alphabet, n) == UNION { [1..k -> alphabet] : k \in 0..n }

UrlBases == StringsOver({"/", "a"}, MaxUrlLen)

UrlPaths ==
    StringsOver({"/", "m"}, MaxUrlLen) \cup
    { <<"m", "a", "r", "k", "e", "t", "s">>,
      <<"/", "m", "a", "r", "k", "e", "t", "s", "/">> }

\* a client as new() or new().with_base_url(base) makes it, and a path
InitUrl ==
    \E client \in { GammaClient_new } \cup
                   { with_base_url(GammaClient_new, b) : b \in UrlBases },
       path \in UrlPaths :
        Start(Budget(0, 0, 0, 0, 0, 0, 0),
              [client |-> client, path |-> path, url |-> None, cloned |-> FALSE])

\* gamma_url(path) called on the client or on a clone of it
GammaUrl(cloned) ==
    /\ probe.url = None
    /\ probe' = [probe EXCEPT
                    !.url = Some(gamma_url(IF cloned THEN clone(probe.client)
                                           ELSE probe.client, probe.path)),
                    !.cloned = cloned]
    /\ UNCHANGED << connection, subscribed_asset_ids, stats, disconnect_history,
                    pending_events, pc, call, attempts, ret, now, sockets,
                    waits, last_frame, last_step, frames_parsed, delivered,
                    disconnects, left, arg, snapshot, entry, begun >>

NextUrl == \E cloned \in BOOLEAN : GammaUrl(cloned)

SpecUrl == InitUrl /\ [][NextUrl]_vars


\* ------------------------------------------------------------------ claims

Last(q) == q[Len(q)]
Sock == Unwrap(connection)

\* the events of a sequence of frame texts, frame after frame
RECURSIVE EventsOf(_)
EventsOf(texts) ==
    IF texts = <<>> THEN <<>>
    ELSE LET r == parse_market_events(Head(texts)) IN
         (IF r.ok THEN Unwrap(r.val) ELSE <<>>) \o EventsOf(Tail(texts))

AllDecoded == \A i \in 1..Len(frames_parsed) : parse_market_events(frames_parsed[i]).ok

\* C1: as long as every payload frame read so far decoded, the events
\* returned by next_event() so far, followed by the events still queued, are
\* exactly the events of the frames in arrival order and element order:
\* nothing returned twice, skipped or reordered.
C1_EventsInArrivalOrder ==
    AllDecoded => delivered \o pending_events = EventsOf(frames_parsed)

\* an array frame of two events and a later frame, all three events returned
C1_Witness ==
    /\ AllDecoded
    /\ Len(frames_parsed) = 2
    /\ Len(EventsOf(<<frames_parsed[1]>>)) = 2
    /\ Len(delivered) = 3
    /\ delivered[1].variant = "Book" /\ delivered[2].variant = "LastTrade"

\* C2: once a frame has been read from a connection, the subscription
\* message of the set held when the connection was opened was the first
\* message transmitted on it; with an empty set held, the replay transmitted
\* nothing.
C2_ReplayBeforeRead ==
    IsSome(connection) =>
        /\ (Sock.reads > 0 /\ Sock.opened_with # <<>>) =>
              /\ Sock.sent # <<>>
              /\ Sock.sent[1] = Text([type |-> "market", assets_ids |-> Sock.opened_with])
        /\ (last_step = "replayed" /\ Sock.opened_with = <<>>) => Sock.sent = <<>>

\* C3: connect() never starts an attempt after 8 failed ones, it fails at
\* the 8th failure and not before, and the caller of subscribe() or
\* next_event() gets that ConnectionFailed error.
C3_ConnectGivesUpAfterEight ==
    /\ pc = "connect" => attempts < 8
    /\ attempts <= 8
    /\ last_step = "connect_gave_up" =>
          /\ attempts = 8
          /\ pc = "idle"
          /\ ret.op \in {"subscribe", "next_event"}
          /\ ret.err = Some(StreamError("Failed to connect", "ConnectionFailed"))
    /\ last_step = "connect_retry" => attempts < 8 /\ pc = "connect"

C3_Witness ==
    /\ last_step = "connect_gave_up"
    /\ ret.op = "next_event"
    /\ ~ret.ok
    /\ attempts = 8

Transmitted(conn) == IF IsSome(conn) THEN Unwrap(conn).sent ELSE <<>>

\* C4: when subscribe(S) has just returned Ok with S non-empty, the last
\* message transmitted on the connection is {"type":"market","assets_ids":S},
\* identifiers in the order of S; no step of a subscribe call with S empty
\* transmits anything.
C4_SubscribeTransmits ==
    /\ [](last_step = "subscribed" /\ subscribed_asset_ids # <<>> =>
            /\ ret.op = "subscribe" /\ ret.ok
            /\ IsSome(connection)
            /\ Transmitted(connection) # <<>>
            /\ Last(Transmitted(connection)) =
                   Text([type |-> "market", assets_ids |-> subscribed_asset_ids]))
    /\ [][call = "subscribe" /\ subscribed_asset_ids = <<>> =>
            \/ Transmitted(connection') = Transmitted(connection)
            \/ connection = None /\ Transmitted(connection') = <<>>]_vars

\* a second subscribe call, with two identifiers, returned Ok
C4_Witness ==
    /\ last_step = "subscribed"
    /\ ret.ok
    /\ left.subscribes = 0
    /\ subscribed_asset_ids = <<"456", "123">>
    /\ Len(Transmitted(connection)) >= 2

\* C5: a step that reads a transport error, a Close frame or the end of the
\* stream returns nothing to the caller: the client is Disconnected and the
\* same next_event() call is back at the top of its loop, from where it
\* re-acquires a connection; an error returned by next_event() is a
\* ParseError, a send failure or the ConnectionFailed of a connect() that
\* used up its 8 attempts.
C5_DropsAreRecovered ==
    /\ [](ret.op = "next_event" /\ ~ret.ok =>
            \/ Unwrap(ret.err).variant = "Parse"
            \/ Unwrap(ret.err) = StreamError("Failed to send message", "MessageCorrupted")
            \/ /\ Unwrap(ret.err) = StreamError("Failed to connect", "ConnectionFailed")
               /\ stats.errors >= 8)
    /\ [][(pc = "read" /\ last_frame' \in {Close, ReadErr, EndOfStream}) =>
            /\ connection' = None
            /\ ret' = ret
            /\ call' = "next_event"
            /\ pc' = "loop"]_vars
    /\ [][(pc = "loop" /\ call = "next_event" /\ connection = None
             /\ pending_events = <<>>) => pc' = "ensure" /\ call' = call]_vars
    /\ [][(pc = "ensure" /\ connection = None) =>
             pc' = "connect" /\ attempts' = 0 /\ call' = call]_vars

\* after a read error the same call is connecting again
C5_Witness ==
    /\ call = "next_event"
    /\ pc = "connect"
    /\ last_frame = ReadErr
    /\ sockets >= 1
    /\ ret.op # "next_event"

\* C6: every step that reads a transport error, a Close frame or the end of
\* the stream leaves the client Disconnected and appends the timestamp of
\* the disconnect to the disconnect history.
C6_EveryDropRecorded ==
    [][(pc = "read" /\ last_frame' \in {Close, ReadErr, EndOfStream}) =>
          /\ connection' = None
          /\ disconnect_history' # <<>>
          /\ Last(disconnect_history') = now
          /\ disconnects' = Append(disconnects, now)]_vars

\* C7: ensure_connection run while Connected changes nothing: no connect
\* attempt, no transmission, connection, stats, queue and subscription set
\* as before; the call goes on with its next step.
C7_EnsureConnectedIsNoOp ==
    [][(pc = "ensure" /\ IsSome(connection)) =>
          /\ connection' = connection
          /\ stats' = stats
          /\ pending_events' = pending_events
          /\ subscribed_asset_ids' = subscribed_asset_ids
          /\ disconnect_history' = disconnect_history
          /\ sockets' = sockets
          /\ attempts' = attempts
          /\ pc' \in {"send", "read"}]_vars

\* ensure_connection ran on a connection that has seen a frame
C7_Witness ==
    /\ last_step = "ensure_connected"
    /\ IsSome(connection)
    /\ Sock.reads > 0

\* min(250 * n, 10 000) for a u32 n: 250 * n <= 10 000 only below 2^16
ExpectedDelay(n) ==
    IF n.hi = 0 /\ 250 * n.lo <= 10000 THEN 250 * n.lo ELSE 10000

\* C8: the delay for attempt n is min(250 ms * n, 10 000 ms), it never
\* exceeds 10 s and it is not smaller than the delay for attempt n - 1.
C8_BackoffDelay ==
    /\ probe.delay = ExpectedDelay(probe.n)
    /\ probe.delay <= 10000
    /\ probe.steps > 0 => probe.prev <= probe.delay

\* the delay at the largest u32, and one below the cap
C8_Witness ==
    \/ probe.n = U32Top /\ probe.delay = 10000 /\ probe.steps > 0
    \/ probe.n = U32(39) /\ probe.delay = 9750 /\ probe.prev = 9500

\* C9: the disconnect history never holds more than 5 timestamps; it holds
\* the most recent recorded disconnects in insertion order, so the 6th
\* insertion evicted the oldest one.
C9_HistoryBounded ==
    /\ Len(disconnect_history) <= 5
    /\ LET n == Len(disconnects) IN
       disconnect_history = SubSeq(disconnects, IF n > 5 THEN n - 4 ELSE 1, n)

\* six disconnects recorded: the first is gone, the last five remain
C9_Witness ==
    /\ Len(disconnects) = 6
    /\ Len(disconnect_history) = 5
    /\ \A i \in 1..5 : disconnect_history[i] # disconnects[1]
    /\ disconnect_history[1] = disconnects[2]
    /\ disconnect_history[5] = disconnects[6]

\* the frames C10 is about: trimmed, "ping" or "pong" in any letter case, or
\* the first character left is neither "{" nor "["
QuietText(text) ==
    LET body == SelectSeq(text, LAMBDA c : c \notin Whitespace)
        lower == [i \in 1..Len(body) |->
                    CASE body[i] = "P" -> "p" [] body[i] = "I" -> "i"
                      [] body[i] = "N" -> "n" [] body[i] = "G" -> "g"
                      [] body[i] = "O" -> "o" [] OTHER -> body[i]]
    IN  \/ lower \in {<<"p", "i", "n", "g">>, <<"p", "o", "n", "g">>}
        \/ body = <<>>
        \/ Head(body) \notin {"{", "["}

\* C10: reading such a text frame queues no event, returns nothing, leaves
\* the stats and the connection as they are and takes next_event() back to
\* the top of its loop.
C10_QuietTextDiscarded ==
    [][(pc = "read" /\ last_frame'.frame = "Text" /\ QuietText(last_frame'.body)) =>
          /\ pending_events' = pending_events
          /\ stats' = stats
          /\ ret' = ret
          /\ frames_parsed' = frames_parsed
          /\ IsSome(connection')
          /\ Unwrap(connection').id = Sock.id
          /\ Unwrap(connection').sent = Sock.sent
          /\ call' = "next_event"
          /\ pc' = "loop"]_vars

\* "PoNg" between whitespace was discarded
C10_Witness ==
    /\ last_step = "discard"
    /\ last_frame = Text(<<" ", "P", "o", "N", "g", "\n">>)
    /\ pc = "loop"

\* the array frames with an element that does not decode, and the error of
\* the first such element
BadElements(text) ==
    LET v == from_str(text) IN
    IF v.ok /\ Unwrap(v.val).t = "arr"
    THEN { i \in 1..Len(Unwrap(v.val).elems) :
             ~parse_market_event_value(Unwrap(v.val).elems[i]).ok }
    ELSE {}

FirstBadElement(text) ==
    LET bad == BadElements(text)
        i == CHOOSE j \in bad : \A k \in bad : j <= k
    IN  Unwrap(from_str(text).val).elems[i]

\* C11: reading an array frame with an element that does not decode returns
\* that element's ParseError from next_event(), queues none of the frame's
\* elements, leaves messages_received and last_message_time as they are and
\* keeps the connection, so that the next call reads on from the same socket.
C11_BadElementFailsFrame ==
    /\ [][(pc = "read" /\ last_frame'.frame = "Text"
             /\ BadElements(last_frame'.body) # {}) =>
            /\ ret'.op = "next_event" /\ ~ret'.ok
            /\ ret'.err = parse_market_event_value(FirstBadElement(last_frame'.body)).err
            /\ Unwrap(ret'.err).variant = "Parse"
            /\ pending_events' = pending_events
            /\ delivered' = delivered
            /\ stats' = stats
            /\ IsSome(connection')
            /\ Unwrap(connection').id = Sock.id
            /\ pc' = "idle"]_vars
    /\ [](last_step = "parse_failed" => IsSome(connection) /\ pc = "idle")

\* after [book, no_disc] failed, the next call read the following frame from
\* the same socket and returned its event, the only one counted
C11_Witness ==
    /\ Len(frames_parsed) = 2
    /\ BadElements(frames_parsed[1]) = {2}
    /\ last_step = "event"
    /\ sockets = 1
    /\ Sock.reads = 2
    /\ Len(delivered) = 1
    /\ stats.messages_received = 1

\* the discriminant members of a value, None when absent
Discriminants(v) ==
    IF v.t = "obj" /\ v.members \in MemberTokens
    THEN [event_type |-> Members[v.members].event_type, type |-> Members[v.members].type]
    ELSE [event_type |-> None, type |-> None]

DecoderOf ==
    [ book |-> "Book", price_change |-> "PriceChange",
      tick_size_change |-> "TickSizeChange", last_trade_price |-> "LastTrade" ]

\* what C12 says of the result r of classifying a value by discriminant x
Dispatched(x, r) ==
    IF x \in DOMAIN DecoderOf
    THEN IF r.ok
         THEN Unwrap(r.val).variant = DecoderOf[x]
         ELSE r.err = Some(ParseError("Failed to parse", x))
    ELSE r.err = Some(ParseError("Unknown market event_type", x))

\* C12: an element is classified by its string member event_type, or by its
\* string member type when event_type is absent: "book", "price_change",
\* "tick_size_change" and "last_trade_price" select the Book, PriceChange,
\* TickSizeChange and LastTrade decoders, any other string gives a ParseError
\* carrying that string, no discriminant at all gives a ParseError, and
\* whatever the element, an event is one of the four variants.
C12_ClosedDispatch ==
    \A i \in 1..Len(probe.results) :
        LET d == Discriminants(probe.elems[i])
            r == probe.results[i]
        IN  /\ r.ok \/ Unwrap(r.err).variant = "Parse"
            /\ r.ok => Unwrap(r.val).variant \in
                          {"Book", "PriceChange", "TickSizeChange", "LastTrade"}
            /\ (IsSome(d.event_type) /\ Unwrap(d.event_type).is_str) =>
                   Dispatched(Unwrap(d.event_type).s, r)
            /\ (d.event_type = None /\ IsSome(d.type) /\ Unwrap(d.type).is_str) =>
                   Dispatched(Unwrap(d.type).s, r)
            /\ (d.event_type = None /\ d.type = None) =>
                   r.err = Some(ParseError("Missing event_type/type in market message", ""))

\* an element with both members was decoded as a Book, and "unknown_kind"
\* came back in the error
C12_Witness ==
    /\ Len(probe.results) = 2
    /\ probe.elems[1] = JObject("book_and_type")
    /\ probe.results[1].ok
    /\ Unwrap(probe.results[1].val).variant = "Book"
    /\ probe.elems[2] = JObject("unknown_kind")
    /\ probe.results[2].err = Some(ParseError("Unknown market event_type", "unknown_kind"))

ErrorKind(res) == Unwrap(res.err).kind

\* on success the message is the last one transmitted on the connection
SentOnSuccess(out) ==
    out.res.ok =>
        /\ IsSome(probe.conn) /\ probe.accepted
        /\ IsSome(out.conn)
        /\ Unwrap(out.conn).sent = Append(Unwrap(probe.conn).sent, Text(probe.message))

\* C13 as stated: send_raw_message fails with MessageCorrupted when there is
\* no connection and when the transport rejects the write, and on success
\* the payload was transmitted on the connection.
C13_SendRawMessageCorrupted ==
    IsSome(probe.out) =>
        LET out == Unwrap(probe.out) IN
        /\ (probe.conn = None \/ ~probe.accepted) =>
               ~out.res.ok /\ ErrorKind(out.res) = "MessageCorrupted"
        /\ SentOnSuccess(out)

\* C13 amended: send_raw_message fails with ConnectionFailed when there is no
\* connection and with MessageCorrupted when the transport rejects the write
\* on a connection, leaving the connection as it was; on success the payload
\* was transmitted on the connection.
C13_SendRawErrors ==
    IsSome(probe.out) =>
        LET out == Unwrap(probe.out) IN
        /\ probe.conn = None =>
               /\ ~out.res.ok /\ ErrorKind(out.res) = "ConnectionFailed"
               /\ out.conn = None
        /\ (IsSome(probe.conn) /\ ~probe.accepted) =>
               /\ ~out.res.ok /\ ErrorKind(out.res) = "MessageCorrupted"
               /\ out.conn = probe.conn
        /\ SentOnSuccess(out)

\* send_raw_message ran without a connection and failed
C13_Witness ==
    /\ IsSome(probe.out)
    /\ probe.conn = None
    /\ ~Unwrap(probe.out).res.ok

\* C14: the first step of subscribe(ids) stores exactly ids as the held set,
\* before any connection or send step, and nothing else changes the held
\* set: during the call and after it, whether it returned Ok or an error, the
\* held set is the argument of the last subscribe call.
C14_SubscribeReplaces ==
    /\ [](subscribed_asset_ids = arg)
    /\ [][(call # "subscribe" /\ call' = "subscribe") =>
            /\ subscribed_asset_ids' = arg'
            /\ connection' = connection
            /\ sockets' = sockets
            /\ pc' = "ensure"]_vars
    /\ [][call' = call => subscribed_asset_ids' = subscribed_asset_ids]_vars

\* a second subscribe call, with one identifier where two were held, failed
\* to send: the one identifier is held
C14_Witness ==
    /\ ret.op = "subscribe" /\ ~ret.ok
    /\ last_step = "send_failed"
    /\ left.subscribes = 0
    /\ IsSome(connection)
    /\ Sock.opened_with = <<"456", "123">>
    /\ subscribed_asset_ids = <<"123">>

\* C15: no step decreases or resets messages_received, errors or
\* reconnect_count, a reconnect included: the counts of events decoded and of
\* errors hold what was counted on every connection so far.
C15_CountersMonotonic ==
    [][/\ stats'.messages_received >= stats.messages_received
       /\ stats'.errors >= stats.errors
       /\ stats'.reconnect_count >= stats.reconnect_count
       /\ (connection = None /\ IsSome(connection')) =>
              /\ stats'.messages_received = stats.messages_received
              /\ stats'.errors = stats.errors]_vars

\* on its second connection the client still counts the event and the
\* errors of before
C15_Witness ==
    /\ sockets = 2
    /\ IsSome(connection)
    /\ stats.messages_received = 1
    /\ stats.errors = 2
    /\ stats.reconnect_count = 1

\* the disconnect timestamps a snapshot lets its holder read
HistoryIn(snap) ==
    IF "disconnect_history" \in DOMAIN snap THEN snap.disconnect_history ELSE <<>>

\* C16: stats() returns the current counters and the disconnect history by
\* value: the snapshot just returned holds the counters and the recorded
\* disconnect timestamps, the call changes nothing of the client, and no
\* later step changes a snapshot already returned.
C16_StatsSnapshot ==
    /\ [](last_step = "stats" =>
            /\ IsSome(snapshot)
            /\ Unwrap(snapshot).messages_received = stats.messages_received
            /\ Unwrap(snapshot).errors = stats.errors
            /\ Unwrap(snapshot).reconnect_count = stats.reconnect_count
            /\ Unwrap(snapshot).last_message_time = stats.last_message_time
            /\ HistoryIn(Unwrap(snapshot)) = disconnect_history)
    /\ [][last_step' = "stats" =>
            /\ connection' = connection
            /\ subscribed_asset_ids' = subscribed_asset_ids
            /\ stats' = stats
            /\ disconnect_history' = disconnect_history
            /\ pending_events' = pending_events]_vars
    /\ [][(IsSome(snapshot) /\ last_step' # "stats") => snapshot' = snapshot]_vars

\* C17: the client holds at most one connection, and acquires it in one
\* place at a time: connect() is only running while the client is
\* Disconnected, a socket is only opened by the running connect() and becomes
\* the client's connection, and the connection is never exchanged for another
\* one without a disconnect in between.
C17_OneConnection ==
    /\ [](pc = "connect" => connection = None)
    /\ [](IsSome(connection) => Sock.id = sockets)
    /\ [][sockets' # sockets =>
            /\ pc = "connect" /\ connection = None
            /\ sockets' = sockets + 1
            /\ IsSome(connection') /\ Unwrap(connection').id = sockets'
            /\ pc' # "connect"]_vars
    /\ [][(IsSome(connection) /\ IsSome(connection')) =>
            Unwrap(connection').id = Sock.id]_vars

\* the second socket was opened after the first was dropped, and is read from
C17_Witness ==
    /\ sockets = 2
    /\ IsSome(connection)
    /\ Sock.id = 2
    /\ pc = "read"
    /\ last_frame \in {Close, ReadErr, EndOfStream}

\* a string without its trailing, or its leading, slashes
NoTrailingSlash(str) ==
    LET keep == { i \in 1..Len(str) : str[i] # "/" }
    IN  IF keep = {} THEN <<>>
        ELSE SubSeq(str, 1, CHOOSE i \in keep : \A j \in keep : j <= i)

NoLeadingSlash(str) ==
    LET keep == { i \in 1..Len(str) : str[i] # "/" }
    IN  IF keep = {} THEN <<>>
        ELSE SubSeq(str, CHOOSE i \in keep : \A j \in keep : i <= j, Len(str))

\* C18: gamma_url(path) is the base without its trailing slashes, one "/",
\* and the path without its leading slashes, a trailing slash of the path
\* kept; a path that is empty, or all slashes, gives the base without its
\* trailing slashes; the base is the one given to with_base_url, and a clone
\* builds the URL of the original.
C18_GammaUrlJoin ==
    IsSome(probe.url) =>
        LET base == NoTrailingSlash(probe.client.base_url)
            p == NoLeadingSlash(probe.path)
            url == Unwrap(probe.url)
        IN  /\ p = <<>> => url = base
            /\ p # <<>> =>
                  /\ url = base \o <<"/">> \o p
                  /\ Len(url) = Len(base) + 1 + Len(p)
                  /\ (Last(url) = "/") = (Last(probe.path) = "/")
            /\ probe.cloned => url = gamma_url(probe.client, probe.path)

\* "/markets/" on a clone of the default client, and a path with two leading
\* slashes on a base with two trailing ones
C18_Witness ==
    /\ IsSome(probe.url)
    /\ \/ /\ probe.cloned
          /\ probe.client = GammaClient_new
          /\ probe.path = <<"/", "m", "a", "r", "k", "e", "t", "s", "/">>
          /\ Unwrap(probe.url) =
                DEFAULT_GAMMA_BASE \o <<"/", "m", "a", "r", "k", "e", "t", "s", "/">>
       \/ /\ probe.client.base_url = <<"a", "/", "/">>
          /\ probe.path = <<"/", "/", "m">>
          /\ Unwrap(probe.url) = <<"a", "/", "m">>

IsSuffix(q, all) ==
    /\ Len(q) <= Len(all)
    /\ q = SubSeq(all, Len(all) - Len(q) + 1, Len(all))

\* C19: next_event() takes its connection and read steps only with an empty
\* queue; at the top of its loop with events queued it returns the head and
\* touches neither the connection nor the transport; so the events queued in
\* any state are the last events of one frame, the frame read last.
C19_DrainBeforeRead ==
    /\ [](call = "next_event" /\ pc \in {"ensure", "connect", "replay", "read"} =>
            pending_events = <<>>)
    /\ [][(pc = "loop" /\ pending_events # <<>>) =>
            /\ ret' = Return("next_event", Ok(Head(pending_events)))
            /\ pending_events' = Tail(pending_events)
            /\ connection' = connection
            /\ sockets' = sockets
            /\ last_frame' = last_frame
            /\ frames_parsed' = frames_parsed
            /\ pc' = "idle"]_vars
    /\ [][frames_parsed' # frames_parsed => pending_events = <<>>]_vars
    /\ [](pending_events # <<>> =>
            /\ frames_parsed # <<>>
            /\ IsSuffix(pending_events, EventsOf(<<Last(frames_parsed)>>)))

\* the second event of an array frame was returned from the queue, with one
\* frame read
C19_Witness ==
    /\ last_step = "pop"
    /\ Len(frames_parsed) = 1
    /\ Len(delivered) = 2
    /\ IsSome(connection)
    /\ Sock.reads = 1
    /\ ret = Return("next_event", Ok(delivered[2]))

\* C20: in a connect() call, every failed attempt adds exactly 1 to errors
\* and nothing to reconnect_count; the successful attempt adds exactly 1 to
\* reconnect_count if the same call had a failed attempt before and nothing
\* otherwise, a reconnection after a drop included; a call that gives up has
\* added nothing to reconnect_count, and no step outside connect() changes
\* it.
C20_ReconnectCount ==
    /\ [](pc = "connect" => attempts = Len(waits))
    /\ [][(pc = "connect" /\ IsSome(connection')) =>
            /\ stats'.reconnect_count =
                  stats.reconnect_count + (IF Len(waits) > 0 THEN 1 ELSE 0)
            /\ stats'.errors = stats.errors]_vars
    /\ [][(pc = "connect" /\ connection' = None) =>
            /\ stats'.errors = stats.errors + 1
            /\ stats'.reconnect_count = stats.reconnect_count
            /\ attempts' = attempts + 1]_vars
    /\ [][pc # "connect" => stats'.reconnect_count = stats.reconnect_count]_vars

\* a call that gave up after 8 failures left reconnect_count at 0; a later
\* call succeeded after one failure
C20_Witness ==
    /\ last_step = "connected"
    /\ attempts = 1
    /\ stats.errors = 9
    /\ stats.reconnect_count = 1
    /\ sockets = 1

\* a step of next_event() that returns nothing, queues nothing, counts
\* nothing and keeps the connection
Transparent ==
    /\ ret' = ret
    /\ pending_events' = pending_events
    /\ delivered' = delivered
    /\ stats' = stats
    /\ IsSome(connection')
    /\ Unwrap(connection').id = Sock.id
    /\ call' = "next_event"
    /\ pc' = "loop"

\* C21: reading a Ping frame transmits a Pong with the payload of the Ping
\* on the same connection, or nothing when the transport rejects the write,
\* and in both cases returns nothing, queues nothing, leaves the stats as
\* they are and takes next_event() back to the top of its loop; reading a
\* Pong frame does the same and transmits nothing.
C21_PingAnswered ==
    /\ [][(pc = "read" /\ last_frame'.frame = "Ping") =>
            /\ Transparent
            /\ IF left'.send_failures = left.send_failures
               THEN Unwrap(connection').sent =
                       Append(Sock.sent, Pong(last_frame'.body))
               ELSE Unwrap(connection').sent = Sock.sent]_vars
    /\ [][(pc = "read" /\ last_frame'.frame = "Pong") =>
            /\ Transparent
            /\ Unwrap(connection').sent = Sock.sent]_vars

\* a Ping was answered, and the frame read after it gave the one event
\* counted
C21_Witness ==
    /\ last_step = "event"
    /\ IsSome(connection)
    /\ Sock.reads = 2
    /\ Sock.sent = <<Pong(<<"a">>)>>
    /\ stats.messages_received = 1
    /\ Len(delivered) = 1

\* C22: when subscribe(S) with S non-empty has just returned Ok, the call
\* transmitted the subscription message of S once, after whatever was
\* transmitted before, if the client was Connected when it was called, and
\* twice, as the only two messages of a new connection, if it was not.
C22_SubscribeOnceOrTwice ==
    (last_step = "subscribed" /\ ret.ok /\ arg # <<>>) =>
        LET msg == Text([type |-> "market", assets_ids |-> arg]) IN
        /\ IsSome(connection)
        /\ IF IsSome(entry)
           THEN /\ Sock.id = Unwrap(entry).id
                /\ Sock.sent = Append(Unwrap(entry).sent, msg)
           ELSE /\ Sock.id = sockets
                /\ Sock.sent = <<msg, msg>>

\* subscribe(["123"]) on a Disconnected client returned Ok with the message
\* transmitted twice
C22_Witness ==
    /\ last_step = "subscribed"
    /\ ret.ok
    /\ arg = <<"123">>
    /\ entry = None
    /\ Len(Sock.sent) = 2
    /\ Sock.sent[1] = Sock.sent[2]

\* C23: between calls, and whenever next_event() is about to read, a
\* Connected client with a non-empty held set has transmitted the
\* subscription message of that set on its current connection, after a
\* failed send as well.
C23_SubscriptionTransmitted ==
    (pc \in {"idle", "read"} /\ IsSome(connection) /\ subscribed_asset_ids # <<>>) =>
        \E i \in 1..Len(Sock.sent) :
            Sock.sent[i] = Text([type |-> "market", assets_ids |-> subscribed_asset_ids])

\* C24: messages_received is the number of events decoded: the events
\* returned by next_event() so far plus the events queued; and once it is
\* above 0, last_message_time is set.
C24_MessagesAreEvents ==
    /\ stats.messages_received = Len(delivered) + Len(pending_events)
    /\ stats.messages_received > 0 => IsSome(stats.last_message_time)

\* one frame of two events: one returned, one queued, two counted
C24_Witness ==
    /\ Len(frames_parsed) = 1
    /\ stats.messages_received = 2
    /\ Len(delivered) = 1
    /\ Len(pending_events) = 1
    /\ IsSome(stats.last_message_time)

\* C25: every connect() call starts its attempt counter at 0 and gives up on
\* the 8th failure of that call alone, whatever failed in earlier calls; a
\* drop read by next_event() does not end the call, which starts another
\* connect(); and next_event() only ends with an event, a ParseError, a send
\* failure or a connect() that gave up, so a call that meets none of them
\* goes on connecting and reading.
C25_CapPerConnectCall ==
    /\ [][(pc # "connect" /\ pc' = "connect") =>
            attempts' = 0 /\ waits' = <<>>]_vars
    /\ [][last_step' = "connect_gave_up" =>
            pc = "connect" /\ Len(waits) = 7 /\ attempts' = 8]_vars
    /\ [][(call = "next_event" /\ pc = "read"
             /\ last_frame' \in {Close, ReadErr, EndOfStream}) =>
            call' = "next_event" /\ ret' = ret /\ pc' = "loop"]_vars
    /\ [][(call = "next_event" /\ call' # "next_event") =>
            \/ ret'.ok /\ delivered' # delivered
            \/ last_step' = "parse_failed" /\ frames_parsed' # frames_parsed
            \/ last_step' = "send_failed" /\ left'.send_failures < left.send_failures
            \/ last_step' = "connect_gave_up"]_vars

\* one next_event() call in its second connect(): 9 attempts have failed in
\* the call, 7 of them before the first connection, and it has not given up
C25_Witness ==
    /\ call = "next_event"
    /\ ret = NoRet
    /\ pc = "connect"
    /\ sockets = 1
    /\ stats.errors = 9
    /\ attempts = 2

\* C26: the step at which connect() gives up leaves the client Disconnected
\* and idle with the ConnectionFailed error returned, errors 8 above what it
\* was when that connect() was called, and reconnect_count,
\* messages_received, last_message_time, the queue, the held set and the
\* disconnect history as they were; the connect() of any later call starts
\* at 0 attempts again and gives up no sooner than its own 8th failure.
C26_GiveUpLeavesClientUsable ==
    /\ [][last_step' = "connect_gave_up" =>
            /\ IsSome(begun)
            /\ stats' = [Unwrap(begun).stats EXCEPT !.errors = @ + 8]
            /\ pending_events' = Unwrap(begun).pending_events
            /\ subscribed_asset_ids' = Unwrap(begun).subscribed_asset_ids
            /\ disconnect_history' = Unwrap(begun).disconnect_history
            /\ connection = None /\ connection' = None
            /\ pc' = "idle" /\ call' = "none"
            /\ ret'.op = call
            /\ ret'.err = Some(StreamError("Failed to connect", "ConnectionFailed"))]_vars
    /\ [][(pc = "ensure" /\ connection = None) =>
            pc' = "connect" /\ attempts' = 0 /\ waits' = <<>>]_vars
    /\ [](last_step = "connect_retry" => pc = "connect" /\ attempts = Len(waits)
                                         /\ attempts < 8)

\* a second call gave up as the first had: 16 errors, 8 of them its own
C26_Witness ==
    /\ last_step = "connect_gave_up"
    /\ stats.errors = 16
    /\ attempts = 8
    /\ Len(waits) = 7
    /\ sockets = 0
    /\ connection = None
    /\ pc = "idle"

\* C27: in a connect() call there is one wait after each failed attempt but
\* the 8th, on which the call returns at once: at most 7 waits, the k-th of
\* 250 ms * k, so strictly increasing, at most 1750 ms and never the 10 s
\* cap.
C27_WaitsOfOneConnect ==
    /\ [](/\ Len(waits) <= 7
          /\ \A k \in 1..Len(waits) :
                /\ waits[k] = 250 * k
                /\ waits[k] <= 1750
                /\ waits[k] < 10000
                /\ k > 1 => waits[k - 1] < waits[k]
          /\ pc = "connect" => Len(waits) = attempts)
    /\ [][(pc = "connect" /\ connection' = None) =>
            IF attempts = 7
            THEN waits' = waits /\ last_step' = "connect_gave_up" /\ pc' = "idle"
            ELSE Len(waits') = Len(waits) + 1 /\ pc' = "connect"]_vars

\* a connect() that gave up waited 7 times, from 250 ms to 1750 ms
C27_Witness ==
    /\ last_step = "connect_gave_up"
    /\ waits = <<250, 500, 750, 1000, 1250, 1500, 1750>>


====
